---- MODULE Spec2Model ----
(***************************************************************************)
(* Pymatode: the grid random-walk simulation of main.py (Simulation,       *)
(* Nematode and the initialize_* helpers) and the one-dimensional ASH      *)
(* avoidance loop of neurons/ASH.py.                                       *)
(*                                                                         *)
(* Random draws (random.randint, np.random.choice) are nondeterministic    *)
(* choices over the values the generator can return.  The two floats of    *)
(* ASH.py (0.0 and 2.0 against the threshold 1.0) and the cells of the     *)
(* zero grid are whole numbers and are kept as integers.                   *)
(***************************************************************************)
EXTENDS Integers, Sequences, FiniteSets, TLC

VARIABLES
    pc,                  \* driver: "Start" | "Idle" | "Running" | "Done" | "Failed"
    error,               \* the exception that left __init__, or "none"
    time_steps,          \* Simulation.time_steps
    grid_size_x,         \* Simulation.grid_size_x
    grid_size_y,         \* Simulation.grid_size_y
    nematode_positions,  \* Simulation.nematode_positions: list of (x, y)
    grid,                \* Simulation.grid: cell (x, y) -> level
    danger_positions,    \* Simulation.danger_positions: list of (x, y)
    nematode,            \* Simulation.nematode: list of Nematode objects
    image_list,          \* Simulation.image_list: the frames rendered so far
    t,                   \* the loop variable of simulate()
    gif,                 \* every frame list handed to imageio.mimsave, in call order
    worm_position,       \* ASH.py
    ash_activity,        \* ASH.py
    positions,           \* ASH.py
    ash_t                \* ASH.py: the loop variable

simvars == <<pc, error, time_steps, grid_size_x, grid_size_y, nematode_positions,
             grid, danger_positions, nematode, image_list, t, gif>>
ashvars == <<worm_position, ash_activity, positions, ash_t>>
vars == <<pc, error, time_steps, grid_size_x, grid_size_y, nematode_positions,
          grid, danger_positions, nematode, image_list, t, gif,
          worm_position, ash_activity, positions, ash_t>>

(***************************************************************************)
(* Bounds of the model.                                                    *)
(***************************************************************************)
\* the largest grid side, the largest number of cells of a grid (the danger
\* markers alone take cells^3 values), the largest time_steps
MaxGrid == 3
MaxCells == 9
MaxSteps == 2
\* the largest grid side of the runs checked for termination
MaxRunGrid == 2

\* the --grid_size_x / --grid_size_y arguments tried, the invalid ones included
GridArgs == (0 - 1) .. MaxGrid
\* the --time_steps arguments tried
StepArgs == 0 .. MaxSteps

(***************************************************************************)
(* main.py: helpers                                                        *)
(***************************************************************************)
Min(a, b) == IF a <= b THEN a ELSE b
Max(a, b) == IF a >= b THEN a ELSE b

DIRECTION_MAPPING ==
    [up |-> "^", down |-> "v", left |-> "<", right |-> ">"]

\* randint without the check of the range: an empty range yields its lower end
randint_unchecked(a, b) == IF a > b THEN {a} ELSE a .. b

\* random.randint(a, b): any integer of a..b; the empty range raises ValueError
randint(a, b) == a .. b

\* the cells of an array of shape (sx, sy)
Cells(sx, sy) == (0 .. (sx - 1)) \X (0 .. (sy - 1))

\* np.zeros((grid_size_x, grid_size_y))
initialize_grid(sx, sy) == [c \in Cells(sx, sy) |-> 0]

\* the lists initialize_nematode can return: one random cell
initialize_nematode(sx, sy) ==
    { << <<x, y>> >> : x \in randint(0, sx - 1), y \in randint(0, sy - 1) }

\* the default of the parameter n of initialize_danger
DangerN == 3

\* the lists initialize_danger can return: n random cells, repeats allowed
initialize_danger(sx, sy) ==
    [1 .. DangerN -> randint(0, sx - 1) \X randint(0, sy - 1)]

get_level(x, y, g) ==
    IF <<x, y>> \in DOMAIN g THEN g[<<x, y>>] ELSE 0

(***************************************************************************)
(* main.py: class Nematode                                                 *)
(***************************************************************************)
NematodeInit(x, y) ==
    [x |-> x, y |-> y, previous_concentration |-> 0, orientation |-> "up"]

position(n) == <<n.x, n.y>>

\* nearby with a diagonal cell as its last candidate
nearby_diagonal(n) ==
    << <<n.x - 1, n.y>>, <<n.x + 1, n.y>>, <<n.x, n.y - 1>>, <<n.x + 1, n.y + 1>> >>

\* the four candidates, in the order of the list the property returns
nearby(n) ==
    << <<n.x - 1, n.y>>, <<n.x + 1, n.y>>, <<n.x, n.y - 1>>, <<n.x, n.y + 1>> >>

\* the values np.random.choice(range(4), p=bias) can return: bias is uniform
Choices == 0 .. 3

\* clamp with the upper bound forgotten
clamp_lower_only(v, size) == Max(0, v)

\* "Apply boundary conditions"
clamp(v, size) == Min(Max(0, v), size - 1)

\* move that also turns the agent towards the cell it chose
move_turning(n, c, sx, sy, g) ==
    LET new   == nearby(n)[c + 1]
        new_x == clamp(new[1], sx)
        new_y == clamp(new[2], sy)
    IN  [n EXCEPT !.x = new_x, !.y = new_y,
                  !.previous_concentration = get_level(new_x, new_y, g),
                  !.orientation = <<"left", "right", "up", "down">>[c + 1]]

\* Nematode.move with the drawn index c: the object after the call
move(n, c, sx, sy, g) ==
    LET new   == nearby(n)[c + 1]
        new_x == clamp(new[1], sx)
        new_y == clamp(new[2], sy)
    IN  [n EXCEPT !.x = new_x, !.y = new_y,
                  !.previous_concentration = get_level(new_x, new_y, g)]

(***************************************************************************)
(* main.py: class Simulation                                               *)
(***************************************************************************)
\* Simulation._setup
setup(ps) == [i \in 1 .. Len(ps) |-> NematodeInit(ps[i][1], ps[i][2])]

\* the frame visualize_state returns, told apart by its title ("Time step t")
\* and by the marker drawn for the agent; the raster is the renderer's
visualize_state(g, n, danger, time_step) ==
    [title |-> time_step, marker |-> DIRECTION_MAPPING[n.orientation]]

\* main.py is started with its three arguments; nothing is built yet
SimStart(ts, sx, sy) ==
    /\ pc = "Start"
    /\ error = "none"
    /\ time_steps = ts
    /\ grid_size_x = sx
    /\ grid_size_y = sy
    /\ nematode_positions = <<>>
    /\ grid = <<>>
    /\ danger_positions = <<>>
    /\ nematode = <<>>
    /\ image_list = <<>>
    /\ t = 0
    /\ gif = <<>>

\* ASH.py, lines 9 to 16: the state before the first iteration
ASHStart ==
    /\ worm_position = 0
    /\ ash_activity = 0
    /\ positions = <<>>
    /\ ash_t = 0

Init ==
    /\ \E ts \in StepArgs, sx \in GridArgs, sy \in GridArgs :
          sx * sy <= MaxCells /\ SimStart(ts, sx, sy)
    /\ ASHStart

\* Simulation.__init__: the random draws succeed and the object is built
SimulationInit ==
    /\ pc = "Start"
    /\ \E ps \in initialize_nematode(grid_size_x, grid_size_y) :
         /\ nematode_positions' = ps
         /\ nematode' = setup(ps)
    /\ grid' = initialize_grid(grid_size_x, grid_size_y)
    /\ danger_positions' \in initialize_danger(grid_size_x, grid_size_y)
    /\ pc' = "Idle"
    /\ UNCHANGED <<error, time_steps, grid_size_x, grid_size_y, image_list, t, gif>>
    /\ UNCHANGED ashvars

\* Simulation.__init__: random.randint raises in initialize_nematode, before
\* any agent, grid or marker exists
SimulationInitRaises ==
    /\ pc = "Start"
    /\ \/ randint(0, grid_size_x - 1) = {}
       \/ randint(0, grid_size_y - 1) = {}
    /\ pc' = "Failed"
    /\ error' = "ValueError"
    /\ UNCHANGED <<time_steps, grid_size_x, grid_size_y, nematode_positions, grid,
                   danger_positions, nematode, image_list, t, gif>>
    /\ UNCHANGED ashvars

\* imageio.mimsave('nematode.gif', self.image_list, fps=20): the encoder
\* receives the frame list as it is at the call
mimsave(calls, frames) == Append(calls, frames)

\* simulate entering its loop once even when range(time_steps) is empty
simulate_enters_loop ==
    /\ pc = "Idle"
    /\ image_list' = <<>>
    /\ t' = 0
    /\ pc' = "Running"
    /\ gif' = gif
    /\ UNCHANGED <<error, time_steps, grid_size_x, grid_size_y, nematode_positions,
                   grid, danger_positions, nematode>>
    /\ UNCHANGED ashvars

\* Simulation.simulate up to the first iteration of its loop; with an empty
\* range(time_steps) the loop body never runs and the method goes on to mimsave
simulate ==
    /\ pc = "Idle"
    /\ image_list' = <<>>
    /\ t' = 0
    /\ IF 0 < time_steps
         THEN /\ pc' = "Running"
              /\ gif' = gif
         ELSE /\ pc' = "Done"
              /\ gif' = mimsave(gif, <<>>)
    /\ UNCHANGED <<error, time_steps, grid_size_x, grid_size_y, nematode_positions,
                   grid, danger_positions, nematode>>
    /\ UNCHANGED ashvars

\* the agents after the for loop of _simulate, agent i moving by the draw cs[i]
moved(ns, cs, sx, sy, g) ==
    [i \in 1 .. Len(ns) |-> move(ns[i], cs[i], sx, sy, g)]

\* new_positions with the coordinates in plotting order (y, x)
new_positions_swapped(ns) == [i \in 1 .. Len(ns) |-> <<ns[i].y, ns[i].x>>]

\* new_positions of _simulate: what each move returned, in the order of the agents
new_positions(ns) == [i \in 1 .. Len(ns) |-> <<ns[i].x, ns[i].y>>]

\* _simulate rendering only "every 10 time steps", as its comment says
_simulate_every_10 ==
    /\ pc = "Running"
    /\ t < time_steps
    /\ \E cs \in [1 .. Len(nematode) -> Choices] :
         LET ns     == moved(nematode, cs, grid_size_x, grid_size_y, grid)
             image  == visualize_state(grid, ns[Len(ns)], danger_positions, t)
             frames == IF t % 10 = 0 THEN Append(image_list, image) ELSE image_list
         IN  /\ nematode' = ns
             /\ nematode_positions' = new_positions(ns)
             /\ image_list' = frames
             /\ t' = t + 1
             /\ IF t + 1 < time_steps
                  THEN /\ pc' = "Running"
                       /\ gif' = gif
                  ELSE /\ pc' = "Done"
                       /\ gif' = mimsave(gif, frames)
    /\ UNCHANGED <<error, time_steps, grid_size_x, grid_size_y, grid, danger_positions>>
    /\ UNCHANGED ashvars

\* _simulate writing the level 1 into the cell the last agent moved to
_simulate_marks_cell ==
    /\ pc = "Running"
    /\ t < time_steps
    /\ \E cs \in [1 .. Len(nematode) -> Choices] :
         LET ns     == moved(nematode, cs, grid_size_x, grid_size_y, grid)
             image  == visualize_state(grid, ns[Len(ns)], danger_positions, t)
             frames == Append(image_list, image)
         IN  /\ nematode' = ns
             /\ nematode_positions' = new_positions(ns)
             /\ grid' = [grid EXCEPT ![position(ns[Len(ns)])] = 1]
             /\ image_list' = frames
             /\ t' = t + 1
             /\ IF t + 1 < time_steps
                  THEN /\ pc' = "Running"
                       /\ gif' = gif
                  ELSE /\ pc' = "Done"
                       /\ gif' = mimsave(gif, frames)
    /\ UNCHANGED <<error, time_steps, grid_size_x, grid_size_y, danger_positions>>
    /\ UNCHANGED ashvars

\* one iteration of the loop of simulate: Simulation._simulate(t), then the next
\* t; after the last iteration the method goes on to mimsave
_simulate ==
    /\ pc = "Running"
    /\ t < time_steps
    /\ \E cs \in [1 .. Len(nematode) -> Choices] :
         LET ns     == moved(nematode, cs, grid_size_x, grid_size_y, grid)
             image  == visualize_state(grid, ns[Len(ns)], danger_positions, t)
             frames == Append(image_list, image)
         IN  /\ nematode' = ns
             /\ nematode_positions' = new_positions(ns)
             /\ image_list' = frames
             /\ t' = t + 1
             /\ IF t + 1 < time_steps
                  THEN /\ pc' = "Running"
                       /\ gif' = gif
                  ELSE /\ pc' = "Done"
                       /\ gif' = mimsave(gif, frames)
    /\ UNCHANGED <<error, time_steps, grid_size_x, grid_size_y, grid, danger_positions>>
    /\ UNCHANGED ashvars

SimNext ==
    \/ SimulationInit
    \/ SimulationInitRaises
    \/ simulate
    \/ _simulate

Next == SimNext

Spec == Init /\ [][Next]_vars

\* the starts of the runs checked for termination: the same program on the
\* grids up to MaxRunGrid x MaxRunGrid, the empty one included
RunInit ==
    /\ \E ts \in StepArgs, sx \in 0 .. MaxRunGrid, sy \in 0 .. MaxRunGrid :
          SimStart(ts, sx, sy)
    /\ ASHStart

\* main.py constructs the Simulation and calls simulate(), and the loop of
\* simulate() is never suspended: every enabled step is taken
FairSpec == RunInit /\ [][Next]_vars /\ WF_vars(Next)

(***************************************************************************)
(* neurons/ASH.py                                                          *)
(***************************************************************************)
threshold == 1
environment_size == 100
stimulus_position == 50
ash_time_steps == 100
\* "ash_activity += 2.0"
stimulus_gain == 2

\* "Check for stimulus": the activity after it
check_stimulus(w, a) == IF w = stimulus_position THEN a + stimulus_gain ELSE a

\* update_ash without the reset of the activity
update_ash_no_reset(w, a) == IF a >= threshold THEN <<a, w - 1>> ELSE <<a, w + 1>>

\* "Update ASH neuron": <<activity, position>> after it
update_ash(w, a) == IF a >= threshold THEN <<0, w - 1>> ELSE <<a, w + 1>>

\* "Boundary conditions"
boundary(w) == Max(0, Min(w, environment_size - 1))

\* one iteration of the loop of ASH.py
ASHStep ==
    /\ ash_t < ash_time_steps
    /\ positions' = Append(positions, worm_position)
    /\ LET u == update_ash(worm_position, check_stimulus(worm_position, ash_activity))
       IN  /\ ash_activity' = u[1]
           /\ worm_position' = boundary(u[2])
    /\ ash_t' = ash_t + 1
    /\ UNCHANGED simvars

ASHInit == SimStart(0, 0, 0) /\ ASHStart

ASHSpec == ASHInit /\ [][ASHStep]_vars

(***************************************************************************)
(* Properties                                                              *)
(***************************************************************************)
Built == pc \in {"Idle", "Running", "Done"}

\* C1: on a grid of width w > 0 and height h > 0, at construction and after
\* any number of moves, every agent's position (x, y) has 0 <= x <= w - 1 and
\* 0 <= y <= h - 1.
C1_PositionInGrid ==
    (Built /\ grid_size_x > 0 /\ grid_size_y > 0) =>
        \A i \in 1 .. Len(nematode) :
            /\ 0 <= nematode[i].x /\ nematode[i].x <= grid_size_x - 1
            /\ 0 <= nematode[i].y /\ nematode[i].y <= grid_size_y - 1

\* two moves on the 3x3 grid that end in its far corner
C1_Witness ==
    /\ pc = "Done" /\ t = 2
    /\ grid_size_x = 3 /\ grid_size_y = 3
    /\ position(nematode[1]) = <<2, 2>>

\* the four axis-aligned neighbours of (x, y), each coordinate brought into the
\* grid on its own
C2_Targets(x, y) ==
    LET cx(v) == IF v < 0 THEN 0 ELSE IF v > grid_size_x - 1 THEN grid_size_x - 1 ELSE v
        cy(v) == IF v < 0 THEN 0 ELSE IF v > grid_size_y - 1 THEN grid_size_y - 1 ELSE v
    IN  << <<cx(x - 1), y>>, <<cx(x + 1), y>>, <<x, cy(y - 1)>>, <<x, cy(y + 1)>> >>

C2_Abs(v) == IF v < 0 THEN 0 - v ELSE v

C2_MoveStep ==
    pc = "Running" =>
        \A i \in 1 .. Len(nematode) :
            LET x  == nematode[i].x
                y  == nematode[i].y
                x2 == nematode'[i].x
                y2 == nematode'[i].y
            IN  /\ \E c \in 1 .. 4 : <<x2, y2>> = C2_Targets(x, y)[c]
                /\ x2 = x \/ y2 = y
                /\ (x = 0 /\ y = 0) => <<x2, y2>> \in {<<0, 0>>, <<1, 0>>, <<0, 1>>}
                /\ (0 < x /\ x < grid_size_x - 1 /\ 0 < y /\ y < grid_size_y - 1)
                       => C2_Abs(x2 - x) + C2_Abs(y2 - y) = 1

\* no draw is rejected: whichever of the four indices is drawn, the move ends on
\* that neighbour, brought onto the border when it lies outside the grid
C2_EveryChoice ==
    pc = "Running" =>
        \A i \in 1 .. Len(nematode) : \A c \in Choices :
            position(move(nematode[i], c, grid_size_x, grid_size_y, grid))
                = C2_Targets(nematode[i].x, nematode[i].y)[c + 1]

\* C2: one move ends at one of the four axis-aligned neighbours, each coordinate
\* clamped on its own into the grid: never diagonal, exactly one cell from an
\* interior cell, from the corner (0,0) to (0,0), (1,0) or (0,1); a neighbour
\* outside the grid stays a possible choice and collapses onto the border.
C2_MoveToClampedNeighbour == [][C2_MoveStep]_vars /\ []C2_EveryChoice

\* a move on the one-cell grid: every neighbour lies outside it, the agent stayed
C2_Witness ==
    /\ pc = "Done" /\ t = 1
    /\ grid_size_x = 1 /\ grid_size_y = 1
    /\ position(nematode[1]) = <<0, 0>>

\* with time_steps = 0 nothing is rendered, the loop variable never advances
\* and a built simulation is never in a tick
C3_NoTickState ==
    (Built /\ time_steps = 0) =>
        /\ pc # "Running"
        /\ image_list = <<>>
        /\ t = 0
        /\ pc = "Done" => gif = << <<>> >>

\* with time_steps = 0 the call of simulate() is the single step Idle -> Done;
\* it leaves the agents where they were and hands the encoder no frame
C3_RunStep ==
    (pc = "Idle" /\ time_steps = 0) =>
        /\ pc' = "Done"
        /\ image_list' = <<>>
        /\ nematode' = nematode
        /\ nematode_positions' = nematode_positions
        /\ gif' = << <<>> >>

\* C3: simulate() with time_steps = 0 produces an empty frame sequence and goes
\* directly from Idle to Done: no tick runs, no agent moves, nothing is rendered.
C3_ZeroStepsIdleToDone == []C3_NoTickState /\ [][C3_RunStep]_vars

\* a 3x3 simulation with time_steps = 0 after simulate() returned
C3_Witness ==
    /\ pc = "Done" /\ time_steps = 0
    /\ grid_size_x = 3 /\ grid_size_y = 3
    /\ image_list = <<>>

\* after k ticks image_list holds the k frames of the ticks 0 .. k-1 in that
\* order; the encoder gets nothing before the last tick and then, once, all
\* time_steps frames
C4_Frames ==
    (pc \in {"Running", "Done"}) =>
        /\ 0 <= t /\ t <= time_steps
        /\ Len(image_list) = t
        /\ \A k \in 1 .. Len(image_list) : image_list[k].title = k - 1
        /\ pc = "Running" => (t < time_steps /\ gif = <<>>)
        /\ pc = "Done" =>
              (t = time_steps /\ Len(gif) = 1 /\ gif[1] = image_list
                 /\ Len(gif[1]) = time_steps)

\* a tick is the next t in order: it moves every agent once (to one of its
\* clamped neighbours) and appends exactly one frame, the one of its tick
C4_Tick ==
    pc = "Running" =>
        /\ t' = t + 1
        /\ Len(image_list') = Len(image_list) + 1
        /\ SubSeq(image_list', 1, Len(image_list)) = image_list
        /\ image_list'[Len(image_list')].title = t
        /\ Len(nematode') = Len(nematode)
        /\ \A i \in 1 .. Len(nematode) : \E c \in Choices :
              nematode'[i] = move(nematode[i], c, grid_size_x, grid_size_y, grid)

\* C4: for every time_steps T >= 0 simulate() terminates; it runs exactly T
\* ticks, t = 0 .. T-1 in order, each moving every agent once and appending one
\* frame; the encoder is called exactly once, after the last tick, with the T
\* frames, and the driver is then Done.
C4_RunsAllTicksAndTerminates ==
    /\ []C4_Frames
    /\ [][C4_Tick]_vars
    /\ (pc = "Idle") ~> (pc = "Done")

\* a run of two ticks has ended: two frames, in order, saved once
C4_Witness ==
    /\ pc = "Done" /\ time_steps = 2 /\ t = 2
    /\ Len(image_list) = 2 /\ image_list[2].title = 1
    /\ gif = <<image_list>>

\* the grid has the shape (grid_size_x, grid_size_y) and every cell is 0.0
C6_ZeroGrid ==
    Built =>
        /\ DOMAIN grid = Cells(grid_size_x, grid_size_y)
        /\ \A c \in DOMAIN grid : grid[c] = 0

\* no step of a built simulation changes the grid or its dimensions
C6_GridKept ==
    Built => (grid' = grid /\ grid_size_x' = grid_size_x /\ grid_size_y' = grid_size_y)

\* C6: the field is read-only during stepping: after any number of ticks the
\* grid has the dimensions and the cell values it had right after construction,
\* and with initialize_grid every cell is 0.0 in every reachable state.
C6_GridReadOnly == []C6_ZeroGrid /\ [][C6_GridKept]_vars

\* two ticks on the 3x2 grid
C6_Witness ==
    /\ pc = "Done" /\ t = 2
    /\ grid_size_x = 3 /\ grid_size_y = 2
    /\ DOMAIN grid = Cells(3, 2)

\* for a width or height <= 0 nothing is ever built: no agent, no tick
C7_NeverBuilt ==
    (grid_size_x <= 0 \/ grid_size_y <= 0) =>
        /\ pc \in {"Start", "Failed"}
        /\ nematode = <<>>
        /\ nematode_positions = <<>>
        /\ t = 0
        /\ image_list = <<>>
        /\ pc = "Failed" <=> error # "none"

\* for a width or height <= 0 the constructor can only raise
C7_Raises ==
    (pc = "Start" /\ (grid_size_x <= 0 \/ grid_size_y <= 0)) =>
        (pc' = "Failed" /\ error' # "none")

\* C7: constructing a Simulation with width <= 0 or height <= 0 fails at
\* construction with an error: no Simulation in state Idle exists for such
\* dimensions, no agent is created and no tick can run.
C7_InvalidDimensionFails == []C7_NeverBuilt /\ [][C7_Raises]_vars

\* the constructor raised for a valid width and the height 0
C7_Witness ==
    /\ pc = "Failed" /\ error = "ValueError"
    /\ grid_size_x = 3 /\ grid_size_y = 0

\* every agent faces 'up'
C8_OrientationUp ==
    \A i \in 1 .. Len(nematode) : nematode[i].orientation = "up"

\* a tick changes, of an agent, only x, y and previous_concentration; it keeps
\* the danger markers, the grid and the dimensions; and the cell it ends on is
\* a clamped neighbour of the agent's cell whatever the markers are
C8_Frame ==
    pc = "Running" =>
        /\ danger_positions' = danger_positions
        /\ grid' = grid
        /\ grid_size_x' = grid_size_x /\ grid_size_y' = grid_size_y
        /\ time_steps' = time_steps
        /\ \A i \in 1 .. Len(nematode) :
              /\ nematode'[i].orientation = nematode[i].orientation
              /\ DOMAIN nematode'[i] = DOMAIN nematode[i]
              /\ \E c \in 1 .. 4 :
                    position(nematode'[i]) = C2_Targets(nematode[i].x, nematode[i].y)[c]

\* C8: Nematode.move mutates only the agent's position and
\* previous_concentration: the orientation stays 'up' whatever direction the
\* agent moved, and the danger markers, the grid and its dimensions are the
\* same after the move; the markers never influence the cell moved to.
C8_MoveFrame == []C8_OrientationUp /\ [][C8_Frame]_vars

\* after two ticks the agent stands on a danger marker, still facing up
C8_Witness ==
    /\ pc = "Done" /\ t = 2
    /\ grid_size_x = 3 /\ grid_size_y = 3
    /\ \E k \in 1 .. Len(danger_positions) : danger_positions[k] = position(nematode[1])
    /\ nematode[1].orientation = "up"

\* C9: at construction and after every tick, nematode_positions is the list of
\* the current positions of the agents of Simulation.nematode, in their order
\* and of the same length; no earlier position is kept.
C9_PositionsAreCurrent ==
    Built =>
        /\ Len(nematode_positions) = Len(nematode)
        /\ \A i \in 1 .. Len(nematode) :
              nematode_positions[i] = <<nematode[i].x, nematode[i].y>>

\* after two ticks on the 3x2 grid the list holds the single current position
C9_Witness ==
    /\ pc = "Done" /\ t = 2
    /\ grid_size_x = 3 /\ grid_size_y = 2
    /\ nematode_positions = << <<2, 0>> >>

\* the position the claim gives for step k
C10_Expected(k) ==
    IF k <= 50 THEN k ELSE IF (k - 50) % 2 = 1 THEN 49 ELSE 50

\* C10: in the ASH loop the worm never passes the stimulus: the position
\* recorded at step k is k for 0 <= k <= 50 and then alternates 49, 50, ...;
\* the position stays within [0, 50] and ash_activity is 0.0 at the end of
\* every iteration.
C10_WormStopsAtStimulus ==
    /\ Len(positions) = ash_t
    /\ \A k \in 1 .. Len(positions) : positions[k] = C10_Expected(k - 1)
    /\ 0 <= worm_position /\ worm_position <= 50
    /\ worm_position <= environment_size - 1
    /\ ash_activity = 0

\* the whole run: the last recorded position, at step 99, is 49
C10_Witness ==
    /\ ash_t = 100
    /\ Len(positions) = 100
    /\ positions[51] = 50 /\ positions[52] = 49 /\ positions[100] = 49
====
